---- MODULE Spec2Model ----
(***************************************************************************)
(* Navigation-mesh path planner of rustlike (src/src/navmesh.rs):          *)
(* NavMesh::plan = plan_channel (A* over the cell graph, radix-heap        *)
(* frontier) followed by refine_path (funnel / string pulling).            *)
(*                                                                         *)
(* Numbers.  Coordinates are integers.  An f32 scalar (cost, heuristic,    *)
(* frontier key) is a fixed-point integer counting 1/Scale units, with     *)
(* f32::INFINITY the absorbing value Inf.  area2 is exact on integers.     *)
(* Vec indices are 0-based as in the source: At(s, i) reads s[i].          *)
(***************************************************************************)
EXTENDS Integers, Sequences, FiniteSets

\* ------------------------------------------------------------------ bounds
Scale == 16      \* fixed-point units per 1.0
MaxEdges == 2    \* longest edge list of a cell
MaxCoord == 1    \* the two-cell meshes take their points from (-MaxCoord..MaxCoord)^2
MaxChan == 5     \* longest channel handed directly to refine_path
MaxY == 2        \* corridor height for the channels handed to refine_path
MaxCalls == 3    \* calls of plan made on one mesh
MaxSteps == 6    \* calls of State::step
MaxGuards == 4   \* guards made by defer

\* f32::INFINITY (navmesh.rs:39), above every finite value the model reaches
Inf == 1000000

\* ------------------------------------------------------- Vec / Option helpers
At(s, i) == s[i + 1]
Last(s) == s[Len(s)]
NotReversed(s) == s
Reversed(s) == [k \in 1..Len(s) |-> s[Len(s) + 1 - k]]
SeqsUpTo(S, n) == UNION {[1..k -> S] : k \in 0..n}
DistinctSeqsUpTo(S, n) == {s \in SeqsUpTo(S, n) : \A a, b \in 1..Len(s) : a # b => s[a] # s[b]}
None == <<>>
Some(x) == <<x>>
Unwrap(o) == o[1]

\* ------------------------------------------------------------ f32 arithmetic
Min(a, b) == IF a <= b THEN a ELSE b
FAdd(a, b) == IF a >= Inf \/ b >= Inf THEN Inf ELSE a + b
\* nearest integer to the square root of n
RSqrt(n) == CHOOSE r \in 0..(n + 1) : (r = 0 \/ (2*r - 1)*(2*r - 1) <= 4*n) /\ 4*n < (2*r + 1)*(2*r + 1)

\* ------------------------------------------------------------------ geometry
X(p) == p[1]
Y(p) == p[2]
DistanceSquaredInt(a, b) == (X(a) - X(b))*(X(a) - X(b)) + (Y(a) - Y(b))*(Y(a) - Y(b))
\* na::distance_squared and na::distance, in 1/Scale units
DistanceSquared(a, b) == Scale * DistanceSquaredInt(a, b)
Distance(a, b) == RSqrt(Scale * Scale * DistanceSquaredInt(a, b))

area2Swapped(a, b, c) ==
    LET bx == X(b) - X(a)
        by == Y(b) - Y(a)
        cx == X(c) - X(a)
        cy == Y(c) - Y(a)
    IN  cx * by - bx * cy

\* area2 without the translation of b and c by a
area2Unshifted(a, b, c) == X(b) * Y(c) - X(c) * Y(b)

\* Compute two times the signed area of a triangle
area2(a, b, c) ==
    LET bx == X(b) - X(a)
        by == Y(b) - Y(a)
        cx == X(c) - X(a)
        cy == Y(c) - Y(a)
    IN  bx * cy - cx * by

\* ---------------------------------------------------------------- the meshes
Edge(v0, v1, n) == [vertices |-> <<v0, v1>>, neighbor |-> n]
Node(c, es) == [center |-> c, edges |-> es]

\* The baked level the search is run on: four rectangular cells
\*   cell 0 = [0,2]x[0,2]   cell 1 = [0,4]x[2,6]
\*   cell 2 = [2,4]x[0,2]   cell 3 = [4,6]x[0,6]
\* adjacent 0-1, 0-2, 1-3, 2-3.  An edge's vertices are the shared side, vertices[0]
\* on the right hand of the direction of travel (as in tests::straight).
LevelCenters == << <<1, 1>>, <<3, 3>>, <<3, 1>>, <<5, 4>> >>
LevelPool ==
    << {Edge(<<2, 2>>, <<0, 2>>, 1), Edge(<<2, 0>>, <<2, 2>>, 2)},
       {Edge(<<0, 2>>, <<2, 2>>, 0), Edge(<<4, 2>>, <<4, 6>>, 3)},
       {Edge(<<2, 2>>, <<2, 0>>, 0), Edge(<<4, 0>>, <<4, 2>>, 3)},
       {Edge(<<4, 6>>, <<4, 2>>, 1), Edge(<<4, 2>>, <<4, 0>>, 2)} >>
\* NavMesh::new(nodes): every cell keeps some of its edges (at most MaxEdges), in any order
LevelEdgeLists(k) == DistinctSeqsUpTo(LevelPool[k + 1], MaxEdges)
LevelMeshes ==
    {<<Node(At(LevelCenters, 0), e0), Node(At(LevelCenters, 1), e1),
       Node(At(LevelCenters, 2), e2), Node(At(LevelCenters, 3), e3)>> :
        e0 \in LevelEdgeLists(0), e1 \in LevelEdgeLists(1),
        e2 \in LevelEdgeLists(2), e3 \in LevelEdgeLists(3)}
LevelStarts == {<<1, 1>>}
LevelGoals == {<<4, 0>>, <<5, 0>>, <<4, 1>>}

\* The two-cell meshes (tests right_corner, left_corner, straight, multi_edge):
\* cell 0 has an edge to cell 1 over any portal [L, R] of the grid, alone or with
\* further edges before or after it (a second boundary with cell 1, an edge to
\* itself); cell 1 has the portal back, or no edge.
Grid == (-MaxCoord..MaxCoord) \X (-MaxCoord..MaxCoord)
PairCenters == << <<0, 0>>, <<1, 0>> >>
PairExtraEdges == {Edge(<<1, -1>>, <<1, 0>>, 1), Edge(<<0, 1>>, <<0, -1>>, 0)}
PairEdgeLists(e) ==
    {<<e>> \o x : x \in DistinctSeqsUpTo(PairExtraEdges, MaxEdges - 1)}
        \cup {x \o <<e>> : x \in DistinctSeqsUpTo(PairExtraEdges, MaxEdges - 1)}
PairMeshes ==
    UNION {{<<Node(At(PairCenters, 0), e0), Node(At(PairCenters, 1), e1)>> :
                e0 \in PairEdgeLists(Edge(L, R, 1)), e1 \in {<<>>, <<Edge(R, L, 0)>>}} :
           L \in Grid, R \in Grid}
PairStarts == {<<0, 0>>}
PairGoals == Grid

\* The channels handed directly to refine_path: entry k is a portal on the line
\* x = k + 1 of a corridor, either way round or degenerate; the start is on x = 0.
\* ys[k + 1] gives the heights of the two vertices of entry k.
CorridorHeights == (0..MaxY) \X (0..MaxY)
CorridorChannel(ys) == [k \in 1..Len(ys) |-> << <<k, ys[k][1]>>, <<k, ys[k][2]>> >>]
CorridorStarts == {<<0, y>> : y \in 0..MaxY}

\* ------------------------------------------------------------------- state
VARIABLES
    nodes,        \* NavMesh.nodes
    pc,           \* "idle" | "search" | "relax" | "walk" | "refine" | "done" | "panic"
    panic,        \* the panic message, "" while none
    start_node, start, goal_node, goal,     \* plan's arguments
    frontier, top,                          \* the RadixHeapMap: entries <<key, value>> in push order, and its top key
    came_from, cost,                        \* plan_channel's vectors
    current, edge_i,                        \* the popped cell and the for loop's index i
    result, node,                           \* plan_channel's result vector and walk cursor
    channel,                                \* plan's channel, refine_path's argument
    apex, left_index, right_index, i, path, \* refine_path's locals; path is its result vector
    other,        \* the locals of a second caller of plan on the same mesh, while it is not running
    history,      \* the calls that have returned: query, outcome, and whether the call ran alone
    overlap,      \* whether the running caller's call (mine) and the other's (theirs) met a call in progress
    state,        \* state.rs State: the Cursor and Step resources, Input.was_pressed, the colliders created
    presses,      \* the value of Cursor.pressed seen by each State::step so far
    guards,       \* defer.rs: the Deferred guards made by defer, in order of creation
    ran           \* the deferred closures that have run, in order; a closure is named by its guard's index

vars == <<nodes, pc, panic, start_node, start, goal_node, goal, frontier, top,
          came_from, cost, current, edge_i, result, node, channel,
          apex, left_index, right_index, i, path, other, history, overlap,
          state, presses, guards, ran>>

searchVars == <<frontier, top, came_from, cost, current, edge_i>>
walkVars == <<result, node>>
funnelVars == <<apex, left_index, right_index, i, path>>
queryVars == <<start_node, start, goal_node, goal>>
gameVars == <<state, presses, guards, ran>>
\* what no step of a call of plan touches
callerVars == <<other, history, overlap, gameVars>>

\* ------------------------------------------------------------ the radix heap
\* RadixHeapMap<Reverse<NotNaN<f32>>, u32>: keys are compared reversed, so the
\* greatest key is the least f.  pop takes the greatest key, the last pushed among
\* equal keys, and makes it the top; push requires key <= top, i.e. f >= top.
MinKey(h) == CHOOSE k \in {h[j][1] : j \in 1..Len(h)} : \A j \in 1..Len(h) : k <= h[j][1]
PopIndex(h) == CHOOSE j \in 1..Len(h) :
    /\ h[j][1] = MinKey(h)
    /\ \A m \in (j + 1)..Len(h) : h[m][1] # MinKey(h)
Remove(h, j) == [m \in 1..(Len(h) - 1) |-> IF m < j THEN h[m] ELSE h[m + 1]]
PushAccepted(t, key) == key >= t

\* ------------------------------------------------------- edge_cost, heuristic
edge_cost(ns, n, e) ==
    LET nd == At(ns, n)
        neighbor == At(ns, At(nd.edges, e).neighbor)
    IN  Distance(nd.center, neighbor.center)

\* the estimate with plain distances for both vertices
EdgeEstimatePlain(x, g) == Min(Distance(At(x.vertices, 0), g), Distance(At(x.vertices, 1), g))

\* the closure of lines 82-85
EdgeEstimate(x, g) == Min(DistanceSquared(At(x.vertices, 0), g), Distance(At(x.vertices, 1), g))
heuristic(ns, n, g) ==
    LET es == At(ns, n).edges
        vals == {EdgeEstimate(es[k], g) : k \in 1..Len(es)} \cup {Inf}
    IN  CHOOSE v \in vals : \A w \in vals : v <= w

\* ---------------------------------------------------------------- refine_path
\* FunnelStep with > for >= in the two collapse tests
FunnelStepStrict(ch, ap, li, ri, ii) ==
    LET portal == At(ch, ii)
        left == At(At(ch, li), 0)
        right == At(At(ch, ri), 1)
    IN  IF area2(ap, At(portal, 0), right) > 0
        THEN LET li1 == IF area2(ap, left, At(portal, 0)) >= 0 THEN ii ELSE li
             IN  IF area2(ap, left, At(portal, 1)) > 0
                 THEN [apex |-> ap,
                       left_index |-> IF area2(ap, At(portal, 1), right) >= 0 THEN ii ELSE li1,
                       right_index |-> ri, i |-> ii + 1, pushed |-> None]
                 ELSE [apex |-> left, left_index |-> li1 + 1, right_index |-> (li1 + 1) + 1,
                       i |-> ((li1 + 1) + 1) + 2, pushed |-> Some(left)]
        ELSE [apex |-> right, left_index |-> ri + 1, right_index |-> ri + 1,
              i |-> (ri + 1) + 2, pushed |-> Some(right)]

\* FunnelStep committing the new portal's vertex instead of the funnel's bound
FunnelStepCommitsPortal(ch, ap, li, ri, ii) ==
    LET portal == At(ch, ii)
        left == At(At(ch, li), 0)
        right == At(At(ch, ri), 1)
    IN  IF area2(ap, At(portal, 0), right) >= 0
        THEN LET li1 == IF area2(ap, left, At(portal, 0)) >= 0 THEN ii ELSE li
             IN  IF area2(ap, left, At(portal, 1)) >= 0
                 THEN [apex |-> ap,
                       left_index |-> IF area2(ap, At(portal, 1), right) >= 0 THEN ii ELSE li1,
                       right_index |-> ri, i |-> ii + 1, pushed |-> None]
                 ELSE [apex |-> At(portal, 1), left_index |-> li1 + 1, right_index |-> (li1 + 1) + 1,
                       i |-> ((li1 + 1) + 1) + 2, pushed |-> Some(At(portal, 1))]
        ELSE [apex |-> At(portal, 0), left_index |-> ri + 1, right_index |-> ri + 1,
              i |-> (ri + 1) + 2, pushed |-> Some(At(portal, 0))]

\* FunnelStep keeping the bounds at the committed edge after a right-side collapse
FunnelStepKeepsBound(ch, ap, li, ri, ii) ==
    LET portal == At(ch, ii)
        left == At(At(ch, li), 0)
        right == At(At(ch, ri), 1)
    IN  IF area2(ap, At(portal, 0), right) >= 0
        THEN LET li1 == IF area2(ap, left, At(portal, 0)) >= 0 THEN ii ELSE li
             IN  IF area2(ap, left, At(portal, 1)) >= 0
                 THEN [apex |-> ap,
                       left_index |-> IF area2(ap, At(portal, 1), right) >= 0 THEN ii ELSE li1,
                       right_index |-> ri, i |-> ii + 1, pushed |-> None]
                 ELSE [apex |-> left, left_index |-> li1 + 1, right_index |-> (li1 + 1) + 1,
                       i |-> ((li1 + 1) + 1) + 2, pushed |-> Some(left)]
        ELSE [apex |-> right, left_index |-> ri, right_index |-> ri,
              i |-> ri + 1, pushed |-> Some(right)]

\* FunnelStep resuming the scan at the new bound index after a collapse
FunnelStepRestartAtBound(ch, ap, li, ri, ii) ==
    LET portal == At(ch, ii)
        left == At(At(ch, li), 0)
        right == At(At(ch, ri), 1)
    IN  IF area2(ap, At(portal, 0), right) >= 0
        THEN LET li1 == IF area2(ap, left, At(portal, 0)) >= 0 THEN ii ELSE li
             IN  IF area2(ap, left, At(portal, 1)) >= 0
                 THEN [apex |-> ap,
                       left_index |-> IF area2(ap, At(portal, 1), right) >= 0 THEN ii ELSE li1,
                       right_index |-> ri, i |-> ii + 1, pushed |-> None]
                 ELSE [apex |-> left, left_index |-> li1 + 1, right_index |-> (li1 + 1) + 1,
                       i |-> (li1 + 1) + 1, pushed |-> Some(left)]
        ELSE [apex |-> right, left_index |-> ri + 1, right_index |-> ri + 1,
              i |-> ri + 1, pushed |-> Some(right)]

\* One iteration of the while loop (lines 99-132): the new locals and the point
\* pushed onto result, if any.
FunnelStep(ch, ap, li, ri, ii) ==
    LET portal == At(ch, ii)
        left == At(At(ch, li), 0)
        right == At(At(ch, ri), 1)
    IN  IF area2(ap, At(portal, 0), right) >= 0
        THEN LET li1 == IF area2(ap, left, At(portal, 0)) >= 0 THEN ii ELSE li
             IN  IF area2(ap, left, At(portal, 1)) >= 0
                 THEN [apex |-> ap,
                       left_index |-> IF area2(ap, At(portal, 1), right) >= 0 THEN ii ELSE li1,
                       right_index |-> ri, i |-> ii + 1, pushed |-> None]
                 ELSE [apex |-> left, left_index |-> li1 + 1, right_index |-> (li1 + 1) + 1,
                       i |-> ((li1 + 1) + 1) + 2, pushed |-> Some(left)]
        ELSE [apex |-> right, left_index |-> ri + 1, right_index |-> ri + 1,
              i |-> (ri + 1) + 2, pushed |-> Some(right)]

\* ------------------------------------------------------------------ actions
Idle ==
    /\ pc = "idle" /\ panic = ""
    /\ start_node = 0 /\ start = <<0, 0>> /\ goal_node = 0 /\ goal = <<0, 0>>
    /\ frontier = <<>> /\ top = 0 /\ came_from = <<>> /\ cost = <<>>
    /\ current = 0 /\ edge_i = 0 /\ result = <<>> /\ node = 0 /\ channel = <<>>
    /\ apex = <<0, 0>> /\ left_index = 0 /\ right_index = 0 /\ i = 0 /\ path = <<>>

\* Plan taking over the cost vector a previous call left behind
PlanKeepsCost(sn, s, gn, g) ==
    /\ pc = "idle"
    /\ start_node' = sn /\ start' = s /\ goal_node' = gn /\ goal' = g
    /\ frontier' = <<<<0, sn>>>>
    /\ top' = 0
    /\ came_from' = [k \in 1..Len(nodes) |-> None]
    /\ cost' = [k \in 1..Len(nodes) |-> IF k = sn + 1 THEN 0 ELSE IF cost = <<>> THEN Inf ELSE cost[k]]
    /\ pc' = "search"
    /\ UNCHANGED <<nodes, panic, current, edge_i, walkVars, channel, funnelVars>>

\* plan (lines 18-27) entering plan_channel up to its while loop (lines 36-40)
Plan(sn, s, gn, g) ==
    /\ pc = "idle"
    /\ start_node' = sn /\ start' = s /\ goal_node' = gn /\ goal' = g
    /\ frontier' = <<<<0, sn>>>>
    /\ top' = 0
    /\ came_from' = [k \in 1..Len(nodes) |-> None]
    /\ cost' = [k \in 1..Len(nodes) |-> IF k = sn + 1 THEN 0 ELSE Inf]
    /\ pc' = "search"
    /\ UNCHANGED <<nodes, panic, current, edge_i, walkVars, channel, funnelVars>>

NeverAtGoal(cur, gn) == FALSE

\* the break taken only when the pop emptied the frontier
AtGoalWhenDrained(cur, gn) == cur = gn /\ Len(frontier) = 1

\* if current == goal_node { break; } (line 43)
AtGoal(cur, gn) == cur = gn

NoSentinel(g) == <<>>

\* let mut result = vec![[*goal, *goal]] (line 61)
InitialResult(g) == << <<g, g>> >>

PortalFlipped(ns, prev, prev_edge) ==
    <<At(At(At(ns, prev).edges, prev_edge).vertices, 1), At(At(At(ns, prev).edges, prev_edge).vertices, 0)>>

\* self.nodes[prev].edges[prev_edge].vertices (line 65)
PortalOf(ns, prev, prev_edge) == At(At(ns, prev).edges, prev_edge).vertices

\* leaving the while loop: lines 61-62
BeginWalk ==
    /\ result' = InitialResult(goal)
    /\ node' = goal_node
    /\ pc' = "walk"

\* while let Some((_, current)) = frontier.pop() (lines 42-45)
Pop ==
    /\ pc = "search"
    /\ IF frontier = <<>>
       THEN /\ BeginWalk
            /\ UNCHANGED searchVars
       ELSE LET j == PopIndex(frontier)
                cur == frontier[j][2]
            IN  /\ frontier' = Remove(frontier, j)
                /\ top' = frontier[j][1]
                /\ current' = cur
                /\ edge_i' = 0
                /\ UNCHANGED <<came_from, cost>>
                /\ IF AtGoal(cur, goal_node)
                   THEN BeginWalk
                   ELSE /\ pc' = IF At(nodes, cur).edges = <<>> THEN "search" ELSE "relax"
                        /\ UNCHANGED walkVars
    /\ UNCHANGED <<nodes, panic, queryVars, channel, funnelVars>>

\* Relax skipping an edge only when its tentative cost is greater
RelaxAcceptsEqual ==
    /\ pc = "relax"
    /\ LET next == At(At(nodes, current).edges, edge_i).neighbor
           next_cost == FAdd(cost[current + 1], edge_cost(nodes, current, edge_i))
           key == FAdd(next_cost, heuristic(nodes, next, goal))
           more == edge_i + 1 < Len(At(nodes, current).edges)
       IN  IF next_cost > cost[next + 1]
           THEN /\ UNCHANGED <<frontier, came_from, cost, panic>>
                /\ edge_i' = edge_i + 1
                /\ pc' = IF more THEN "relax" ELSE "search"
           ELSE /\ cost' = [cost EXCEPT ![next + 1] = next_cost]
                /\ IF PushAccepted(top, key)
                   THEN /\ frontier' = Append(frontier, <<key, next>>)
                        /\ came_from' = [came_from EXCEPT ![next + 1] = Some(<<current, edge_i>>)]
                        /\ edge_i' = edge_i + 1
                        /\ pc' = IF more THEN "relax" ELSE "search"
                        /\ UNCHANGED panic
                   ELSE /\ pc' = "panic"
                        /\ panic' = "Key must be lower or equal to current top key"
                        /\ UNCHANGED <<frontier, came_from, edge_i>>
    /\ UNCHANGED <<nodes, queryVars, top, current, walkVars, channel, funnelVars>>

\* one iteration of the for loop over the edges of current (lines 46-58)
Relax ==
    /\ pc = "relax"
    /\ LET next == At(At(nodes, current).edges, edge_i).neighbor
           next_cost == FAdd(cost[current + 1], edge_cost(nodes, current, edge_i))
           key == FAdd(next_cost, heuristic(nodes, next, goal))
           more == edge_i + 1 < Len(At(nodes, current).edges)
       IN  IF next_cost >= cost[next + 1]
           THEN /\ UNCHANGED <<frontier, came_from, cost, panic>>
                /\ edge_i' = edge_i + 1
                /\ pc' = IF more THEN "relax" ELSE "search"
           ELSE /\ cost' = [cost EXCEPT ![next + 1] = next_cost]
                /\ IF PushAccepted(top, key)
                   THEN /\ frontier' = Append(frontier, <<key, next>>)
                        /\ came_from' = [came_from EXCEPT ![next + 1] = Some(<<current, edge_i>>)]
                        /\ edge_i' = edge_i + 1
                        /\ pc' = IF more THEN "relax" ELSE "search"
                        /\ UNCHANGED panic
                   ELSE /\ pc' = "panic"
                        /\ panic' = "Key must be lower or equal to current top key"
                        /\ UNCHANGED <<frontier, came_from, edge_i>>
    /\ UNCHANGED <<nodes, queryVars, top, current, walkVars, channel, funnelVars>>

\* one iteration of the reconstruction loop, or its exit into refine_path
\* (lines 63-69, 26, 93-97)
Walk ==
    /\ pc = "walk"
    /\ IF node = start_node
       THEN /\ channel' = Reversed(result)
            /\ apex' = start
            /\ left_index' = 0
            /\ right_index' = 0
            /\ i' = 1
            /\ path' = <<>>
            /\ pc' = "refine"
            /\ UNCHANGED <<walkVars, panic>>
       ELSE /\ IF came_from[node + 1] = None
               THEN /\ pc' = "panic"
                    /\ panic' = "unconnected graph"
                    /\ UNCHANGED walkVars
               ELSE LET prev == At(Unwrap(came_from[node + 1]), 0)
                        prev_edge == At(Unwrap(came_from[node + 1]), 1)
                    IN  /\ result' = Append(result, PortalOf(nodes, prev, prev_edge))
                        /\ node' = prev
                        /\ pc' = "walk"
                        /\ UNCHANGED panic
            /\ UNCHANGED <<channel, funnelVars>>
    /\ UNCHANGED <<nodes, queryVars, searchVars>>

\* one iteration of refine_path's while loop, or its exit (lines 98-135)
Refine ==
    /\ pc = "refine"
    /\ IF i < Len(channel)
       THEN LET r == FunnelStep(channel, apex, left_index, right_index, i)
            IN  /\ apex' = r.apex
                /\ left_index' = r.left_index
                /\ right_index' = r.right_index
                /\ i' = r.i
                /\ path' = IF r.pushed = None THEN path ELSE Append(path, Unwrap(r.pushed))
                /\ pc' = "refine"
       ELSE /\ pc' = "done"
            /\ UNCHANGED funnelVars
    /\ UNCHANGED <<nodes, panic, queryVars, searchVars, walkVars, channel>>

\* --------------------------------------------------------- the specifications
\* a caller that has not called plan: the values Idle gives the locals
IdleLocals ==
    [pc |-> "idle", panic |-> "", start_node |-> 0, start |-> <<0, 0>>, goal_node |-> 0,
     goal |-> <<0, 0>>, frontier |-> <<>>, top |-> 0, came_from |-> <<>>, cost |-> <<>>,
     current |-> 0, edge_i |-> 0, result |-> <<>>, node |-> 0, channel |-> <<>>,
     apex |-> <<0, 0>>, left_index |-> 0, right_index |-> 0, i |-> 0, path |-> <<>>]

\* State::new (state.rs:26-37) with Input::new (sim.rs:28-30): the cursor at the origin
\* and not pressed, step 0, no collider
NewState ==
    [cursor |-> [position |-> <<0, 0>>, pressed |-> FALSE], step |-> 0,
     was_pressed |-> FALSE, colliders |-> <<>>]

\* no second caller, no call returned yet; a new State and no guard
OneCaller ==
    /\ other = IdleLocals
    /\ history = <<>>
    /\ overlap = [mine |-> FALSE, theirs |-> FALSE]
    /\ state = NewState
    /\ presses = <<>>
    /\ guards = <<>>
    /\ ran = <<>>

\* plan on the meshes of the level
Init ==
    /\ nodes \in LevelMeshes
    /\ Idle
    /\ OneCaller

PlanLevel ==
    \E sn \in 0..(Len(nodes) - 1), gn \in 0..(Len(nodes) - 1), s \in LevelStarts, g \in LevelGoals :
        Plan(sn, s, gn, g)

Next ==
    \/ PlanLevel /\ UNCHANGED callerVars
    \/ Pop /\ UNCHANGED callerVars
    \/ Relax /\ UNCHANGED callerVars
    \/ Walk /\ UNCHANGED callerVars
    \/ Refine /\ UNCHANGED callerVars

Spec == Init /\ [][Next]_vars

\* plan on the two-cell meshes
InitPair ==
    /\ nodes \in PairMeshes
    /\ Idle
    /\ OneCaller

PlanPair ==
    \E sn \in 0..(Len(nodes) - 1), gn \in 0..(Len(nodes) - 1), s \in PairStarts, g \in PairGoals :
        Plan(sn, s, gn, g)

NextPair ==
    \/ PlanPair /\ UNCHANGED callerVars
    \/ Pop /\ UNCHANGED callerVars
    \/ Relax /\ UNCHANGED callerVars
    \/ Walk /\ UNCHANGED callerVars
    \/ Refine /\ UNCHANGED callerVars

SpecPair == InitPair /\ [][NextPair]_vars

\* refine_path on a channel of its own (lines 90-97)
InitRefine ==
    /\ nodes = <<>> /\ panic = ""
    /\ start_node = 0 /\ goal_node = 0 /\ goal = <<0, 0>>
    /\ frontier = <<>> /\ top = 0 /\ came_from = <<>> /\ cost = <<>>
    /\ current = 0 /\ edge_i = 0 /\ result = <<>> /\ node = 0
    /\ \E n \in 0..MaxChan : \E ys \in [1..n -> CorridorHeights] : channel = CorridorChannel(ys)
    /\ start \in CorridorStarts
    /\ apex = start
    /\ left_index = 0 /\ right_index = 0 /\ i = 1 /\ path = <<>>
    /\ pc = "refine"
    /\ OneCaller

NextRefine == Refine /\ UNCHANGED callerVars

SpecRefine == InitRefine /\ [][NextRefine]_vars

\* refine_path runs to its return: nothing suspends the loop
SpecRefineFair == InitRefine /\ [][NextRefine]_vars /\ WF_vars(NextRefine)

\* repeated and concurrent calls of plan(&self, ...) on one mesh (lines 18-27)
\* the level with every edge baked, and the level with cell 2 walled off
LevelFull ==
    <<Node(<<1, 1>>, <<Edge(<<2, 2>>, <<0, 2>>, 1), Edge(<<2, 0>>, <<2, 2>>, 2)>>),
      Node(<<3, 3>>, <<Edge(<<0, 2>>, <<2, 2>>, 0), Edge(<<4, 2>>, <<4, 6>>, 3)>>),
      Node(<<3, 1>>, <<Edge(<<2, 2>>, <<2, 0>>, 0), Edge(<<4, 0>>, <<4, 2>>, 3)>>),
      Node(<<5, 4>>, <<Edge(<<4, 6>>, <<4, 2>>, 1), Edge(<<4, 2>>, <<4, 0>>, 2)>>)>>
LevelWalled ==
    <<Node(<<1, 1>>, <<Edge(<<2, 2>>, <<0, 2>>, 1)>>),
      Node(<<3, 3>>, <<Edge(<<0, 2>>, <<2, 2>>, 0), Edge(<<4, 2>>, <<4, 6>>, 3)>>),
      Node(<<3, 1>>, <<>>),
      Node(<<5, 4>>, <<Edge(<<4, 6>>, <<4, 2>>, 1)>>)>>
CallMeshes == {LevelFull, LevelWalled}
CallStartNodes == {0}
CallGoals == {<<4, 0>>, <<5, 0>>}

\* the running caller's stack frame: every local of plan, plan_channel and refine_path
Locals ==
    [pc |-> pc, panic |-> panic, start_node |-> start_node, start |-> start,
     goal_node |-> goal_node, goal |-> goal, frontier |-> frontier, top |-> top,
     came_from |-> came_from, cost |-> cost, current |-> current, edge_i |-> edge_i,
     result |-> result, node |-> node, channel |-> channel, apex |-> apex,
     left_index |-> left_index, right_index |-> right_index, i |-> i, path |-> path]

\* what the caller gets: the Vec returned at line 26, or the panic that unwound the call
Outcome == IF pc = "done" THEN <<"returned", path>> ELSE <<"panicked", panic>>

\* plan called by the running caller; a call that starts while the other caller's is
\* in progress overlaps it
PlanCall ==
    /\ Len(history) + (IF other.pc = "idle" THEN 0 ELSE 1) < MaxCalls
    /\ \E sn \in CallStartNodes, gn \in 0..(Len(nodes) - 1), s \in LevelStarts, g \in CallGoals :
            Plan(sn, s, gn, g)
    /\ overlap' = [mine |-> other.pc # "idle", theirs |-> overlap.theirs \/ other.pc # "idle"]
    /\ UNCHANGED <<other, history, gameVars>>

\* plan returns (line 26) or unwinds; the mesh is ready for the caller's next call
Return ==
    /\ pc \in {"done", "panic"}
    /\ history' = Append(history, [query |-> <<start_node, start, goal_node, goal>>,
                                    outcome |-> Outcome, alone |-> ~overlap.mine])
    /\ pc' = "idle"
    /\ UNCHANGED <<nodes, panic, queryVars, searchVars, walkVars, channel, funnelVars, other, overlap, gameVars>>

\* the two callers share one cost vector
SwitchSharingCost ==
    /\ other' = Locals
    /\ pc' = other.pc /\ panic' = other.panic
    /\ start_node' = other.start_node /\ start' = other.start
    /\ goal_node' = other.goal_node /\ goal' = other.goal
    /\ frontier' = other.frontier /\ top' = other.top
    /\ came_from' = other.came_from /\ cost' = cost
    /\ current' = other.current /\ edge_i' = other.edge_i
    /\ result' = other.result /\ node' = other.node /\ channel' = other.channel
    /\ apex' = other.apex /\ left_index' = other.left_index
    /\ right_index' = other.right_index /\ i' = other.i /\ path' = other.path
    /\ overlap' = [mine |-> overlap.theirs, theirs |-> overlap.mine]
    /\ UNCHANGED <<nodes, history, gameVars>>

\* the scheduler runs the other caller: each caller has its own locals, the mesh
\* behind &self is the one thing they share
Switch ==
    /\ other' = Locals
    /\ pc' = other.pc /\ panic' = other.panic
    /\ start_node' = other.start_node /\ start' = other.start
    /\ goal_node' = other.goal_node /\ goal' = other.goal
    /\ frontier' = other.frontier /\ top' = other.top
    /\ came_from' = other.came_from /\ cost' = other.cost
    /\ current' = other.current /\ edge_i' = other.edge_i
    /\ result' = other.result /\ node' = other.node /\ channel' = other.channel
    /\ apex' = other.apex /\ left_index' = other.left_index
    /\ right_index' = other.right_index /\ i' = other.i /\ path' = other.path
    /\ overlap' = [mine |-> overlap.theirs, theirs |-> overlap.mine]
    /\ UNCHANGED <<nodes, history, gameVars>>

InitCalls ==
    /\ nodes \in CallMeshes
    /\ Idle
    /\ OneCaller

\* one caller, calling plan again and again
NextRepeat ==
    \/ PlanCall
    \/ Pop /\ UNCHANGED callerVars
    \/ Relax /\ UNCHANGED callerVars
    \/ Walk /\ UNCHANGED callerVars
    \/ Refine /\ UNCHANGED callerVars
    \/ Return

SpecRepeat == InitCalls /\ [][NextRepeat]_vars

\* two callers on separate threads, their steps interleaved in any order
NextCallers ==
    \/ PlanCall
    \/ Pop /\ UNCHANGED callerVars
    \/ Relax /\ UNCHANGED callerVars
    \/ Walk /\ UNCHANGED callerVars
    \/ Refine /\ UNCHANGED callerVars
    \/ Return
    \/ Switch

SpecCallers == InitCalls /\ [][NextCallers]_vars

\* ------------------------------------------------------- sim.rs and state.rs
plannerVars == <<nodes, pc, panic, queryVars, searchVars, walkVars, channel, funnelVars,
                 other, history, overlap>>

\* Input::run creating a collider whenever the cursor is pressed
runLevelTriggered(st) ==
    LET created == IF st.cursor.pressed
                   THEN Append(st.colliders, [entity |-> Len(st.colliders), position |-> st.cursor.position])
                   ELSE st.colliders
    IN  [st EXCEPT !.colliders = created, !.was_pressed = st.cursor.pressed]

\* Input::run (sim.rs:41-56): a new entity with a collider at the cursor when the cursor
\* is pressed and was not at the last run; then was_pressed takes the cursor's value
run(st) ==
    LET created == IF st.cursor.pressed /\ ~st.was_pressed
                   THEN Append(st.colliders, [entity |-> Len(st.colliders), position |-> st.cursor.position])
                   ELSE st.colliders
    IN  [st EXCEPT !.colliders = created, !.was_pressed = st.cursor.pressed]

\* State::step (state.rs:39-43): run the input system, then count the step
\* (wrapping_add on a u64, which MaxSteps steps leave far from wrapping)
step ==
    /\ Len(presses) < MaxSteps
    /\ state' = [run(state) EXCEPT !.step = @ + 1]
    /\ presses' = Append(presses, state.cursor.pressed)
    /\ UNCHANGED <<plannerVars, guards, ran>>

\* State::cursor_pressed (state.rs:51-53)
cursor_pressed(pressed) ==
    /\ state' = [state EXCEPT !.cursor.pressed = pressed]
    /\ UNCHANGED <<plannerVars, presses, guards, ran>>

InitInput ==
    /\ nodes = <<>>
    /\ Idle
    /\ OneCaller

NextInput ==
    \/ step
    \/ \E pressed \in BOOLEAN : cursor_pressed(pressed)

SpecInput == InitInput /\ [][NextInput]_vars

\* ------------------------------------------------------------------ defer.rs
\* A guard is Deferred(Option<F>): f is the Option.  live tells that the guard is
\* still owned (it has been neither dropped nor consumed by disarm), disarmed that
\* disarm was called on it.  The closure of guard number k is named k.

\* defer (defer.rs:15-17)
defer(f) == [f |-> Some(f), live |-> TRUE, disarmed |-> FALSE]

\* Drop::drop (defer.rs:3-7): self.0.take().map(|f| f()); called tells which closure ran
drop(g) == [guard |-> [g EXCEPT !.f = None, !.live = FALSE], called |-> g.f]

\* disarm leaving the closure in place
disarmWithoutTake(g) == drop([g EXCEPT !.disarmed = TRUE])

\* Deferred::disarm (defer.rs:9-13): self.0.take(), then self goes out of scope and is dropped
disarm(g) == drop([g EXCEPT !.f = None, !.disarmed = TRUE])

\* let guard = defer(|| ...) (main.rs:51-54)
Defer ==
    /\ Len(guards) < MaxGuards
    /\ guards' = Append(guards, defer(Len(guards)))
    /\ UNCHANGED <<plannerVars, state, presses, ran>>

\* a live guard goes out of scope
Drop ==
    \E k \in 1..Len(guards) :
        /\ guards[k].live
        /\ guards' = [guards EXCEPT ![k] = drop(guards[k]).guard]
        /\ ran' = IF drop(guards[k]).called = None THEN ran
                   ELSE Append(ran, Unwrap(drop(guards[k]).called))
        /\ UNCHANGED <<plannerVars, state, presses>>

\* guard.disarm() on a live guard
Disarm ==
    \E k \in 1..Len(guards) :
        /\ guards[k].live
        /\ guards' = [guards EXCEPT ![k] = disarm(guards[k]).guard]
        /\ ran' = IF disarm(guards[k]).called = None THEN ran
                   ELSE Append(ran, Unwrap(disarm(guards[k]).called))
        /\ UNCHANGED <<plannerVars, state, presses>>

NextDefer == Defer \/ Drop \/ Disarm

SpecDefer == InitInput /\ [][NextDefer]_vars

\* ------------------------------------------------------------------- claims
Called == pc # "idle"
Returned == pc \in {"refine", "done"}      \* plan_channel has returned its channel
Neighbors(ns, S) == {At(ns, n).edges[k].neighbor : <<n, k>> \in {<<n, k>> \in S \X (1..MaxEdges) : k <= Len(At(ns, n).edges)}}
RECURSIVE ReachFrom(_, _, _)
ReachFrom(ns, S, k) == IF k = 0 THEN S ELSE ReachFrom(ns, S \cup Neighbors(ns, S), k - 1)
\* cell b can be reached from cell a by following edges
Reachable(ns, a, b) == b \in ReachFrom(ns, {a}, Len(ns))

\* C1: on every mesh in which the goal cell can be reached from the start cell,
\* plan does not panic (it returns its list of via-points).
C1_PlanReturnsWhenReachable ==
    (Called /\ Reachable(nodes, start_node, goal_node)) => pc # "panic"

\* C2: when the goal cell differs from the start cell and cannot be reached from it,
\* plan_channel returns no channel, and the panic it ends in is "unconnected
\* graph", raised with the frontier exhausted.
C2_UnreachablePanicsUnconnected ==
    (Called /\ start_node # goal_node /\ ~Reachable(nodes, start_node, goal_node)) =>
        /\ ~Returned
        /\ pc = "panic" => (panic = "unconnected graph" /\ frontier = <<>>)

\* C3: the returned channel is a chain of mesh edges from the start cell to the goal
\* cell, each portal in its owning cell's vertex order, in start-to-goal order,
\* closed by one last entry.
RECURSIVE Chain(_, _, _, _)
Chain(ns, ch, c, k) ==
    IF k >= Len(ch)
    THEN c = goal_node
    ELSE \E e \in 1..Len(At(ns, c).edges) :
            /\ At(ns, c).edges[e].vertices = ch[k]
            /\ Chain(ns, ch, At(ns, c).edges[e].neighbor, k + 1)
C3_ChannelIsChain == Returned => Chain(nodes, channel, start_node, 1)
C3_Witness == pc = "done" /\ Len(channel) = 3 /\ channel[1] # channel[2]

\* C4: the returned channel is not empty, ends with [goal, goal], and has one entry
\* more than the backpointer path from the goal cell to the start cell has edges.
RECURSIVE Hops(_, _)
Hops(cf, n) == IF n = start_node THEN 0 ELSE 1 + Hops(cf, At(Unwrap(cf[n + 1]), 0))
C4_ChannelEndsWithSentinel ==
    Returned =>
        /\ Len(channel) >= 1
        /\ Last(channel) = <<goal, goal>>
        /\ Len(channel) = Hops(came_from, goal_node) + 1
C4_Witness == pc = "refine" /\ Len(channel) = 2 /\ Last(channel) = <<goal, goal>>

\* C5: when start_cell = goal_cell no cell is expanded (no relaxation, costs and
\* backpointers as initialised), the channel is [[goal, goal]] and the path is empty.
C5_SameCellPlan ==
    (Called /\ start_node = goal_node) =>
        /\ pc \in {"search", "walk", "refine", "done"}
        /\ \A k \in 1..Len(nodes) : came_from[k] = None
        /\ \A k \in 1..Len(nodes) : cost[k] = IF k = start_node + 1 THEN 0 ELSE Inf
        /\ Returned => (channel = << <<goal, goal>> >> /\ path = <<>>)
C5_Witness ==
    pc = "done" /\ start_node = goal_node /\ Len(At(nodes, start_node).edges) = 2 /\ path = <<>>

\* twice the signed area of the triangle a, b, c: positive for a counter-clockwise turn
Turn(a, b, c) == (b[1] - a[1]) * (c[2] - a[2]) - (c[1] - a[1]) * (b[2] - a[2])

\* the start cell has exactly one edge, and it leads to the goal cell
OnePortal == start_node # goal_node /\ Len(At(nodes, start_node).edges) = 1
                /\ At(At(nodes, start_node).edges, 0).neighbor = goal_node
PortalL == At(At(At(nodes, start_node).edges, 0).vertices, 0)
PortalR == At(At(At(nodes, start_node).edges, 0).vertices, 1)

\* C6: two cells joined by one portal [L, R]: plan returns [R] when
\* area2(start, goal, R) < 0, and [L] when area2(start, goal, R) >= 0 and
\* area2(start, L, goal) < 0.
C6_CornerIsSoleViaPoint ==
    (pc = "done" /\ OnePortal) =>
        /\ Turn(start, goal, PortalR) < 0 => path = <<PortalR>>
        /\ (Turn(start, goal, PortalR) >= 0 /\ Turn(start, PortalL, goal) < 0) => path = <<PortalL>>
C6_Witness ==
    /\ pc = "done" /\ OnePortal
    /\ Turn(start, PortalL, PortalR) > 0
    /\ Turn(start, goal, PortalR) >= 0 /\ Turn(start, PortalL, goal) < 0
    /\ path = <<PortalL>>

\* C7: two cells joined by one portal: when the goal is inside the funnel from the
\* start through L and R, plan returns no via-point.
C7_StraightIsEmpty ==
    (pc = "done" /\ OnePortal /\ Turn(start, goal, PortalR) >= 0 /\ Turn(start, PortalL, goal) >= 0)
        => path = <<>>
C7_Witness ==
    /\ pc = "done" /\ OnePortal
    /\ Turn(start, PortalL, PortalR) > 0
    /\ Turn(start, goal, PortalR) > 0 /\ Turn(start, PortalL, goal) > 0
    /\ path = <<>>

\* the indices (1-based) of the start cell's edges that lead to the goal cell
EdgesToGoal == {k \in 1..Len(At(nodes, start_node).edges) : At(nodes, start_node).edges[k].neighbor = goal_node}
ParallelEdges == start_node # goal_node /\ Cardinality(EdgesToGoal) >= 2

\* C8: when the start cell has several edges to the goal cell, plan does not fail and
\* the channel is the portal of one of these edges followed by [goal, goal].
C8_MultiEdgeOneHop ==
    (Called /\ ParallelEdges) =>
        /\ pc # "panic"
        /\ Returned =>
            /\ Len(channel) = 2
            /\ channel[2] = <<goal, goal>>
            /\ \E k \in EdgesToGoal : At(nodes, start_node).edges[k].vertices = channel[1]
C8_Witness ==
    /\ pc = "done" /\ ParallelEdges
    /\ \E k, m \in EdgesToGoal : At(nodes, start_node).edges[k].vertices # At(nodes, start_node).edges[m].vertices

\* C9: every via-point refine_path returns is a vertex of a channel entry whose index
\* is below channel.len() - 1: neither the last entry nor the start is committed.
C9_ViaPointsAreInnerVertices ==
    \A k \in 1..Len(path) :
        \E j \in 0..(Len(channel) - 2) : path[k] \in {At(At(channel, j), 0), At(At(channel, j), 1)}
C9_Witness ==
    /\ pc = "done" /\ Len(path) = 2
    /\ At(Last(channel), 0) = At(Last(channel), 1)

\* segments p1-p2 and q1-q2 cross or touch
Between(a, b, c) ==
    /\ (a[1] <= c[1] /\ c[1] <= b[1]) \/ (b[1] <= c[1] /\ c[1] <= a[1])
    /\ (a[2] <= c[2] /\ c[2] <= b[2]) \/ (b[2] <= c[2] /\ c[2] <= a[2])
Opposite(d, e) == (d > 0 /\ e < 0) \/ (d < 0 /\ e > 0)
Intersects(p1, p2, q1, q2) ==
    \/ Opposite(Turn(q1, q2, p1), Turn(q1, q2, p2)) /\ Opposite(Turn(p1, p2, q1), Turn(p1, p2, q2))
    \/ Turn(q1, q2, p1) = 0 /\ Between(q1, q2, p1)
    \/ Turn(q1, q2, p2) = 0 /\ Between(q1, q2, p2)
    \/ Turn(p1, p2, q1) = 0 /\ Between(p1, p2, q1)
    \/ Turn(p1, p2, q2) = 0 /\ Between(p1, p2, q2)
\* a corridor channel whose portals all have vertices[0] on the right of the direction
\* of travel, closed by the goal's degenerate portal
ConsistentChannel(ch) ==
    /\ Len(ch) >= 1
    /\ \A k \in 1..Len(ch) : Y(At(ch[k], 0)) <= Y(At(ch[k], 1))
    /\ At(Last(ch), 0) = At(Last(ch), 1)
Route == <<start>> \o path \o <<At(Last(channel), 0)>>

\* C10: for a consistently oriented channel the route start -> via-points -> goal
\* meets every portal of the channel (the route is a valid taut route through it).
C10_RouteMeetsEveryPortal ==
    (pc = "done" /\ ConsistentChannel(channel)) =>
        \A j \in 1..(Len(channel) - 1) :
            \E k \in 1..(Len(Route) - 1) :
                Intersects(Route[k], Route[k + 1], At(channel[j], 0), At(channel[j], 1))

\* C11: any two calls of plan that were given the same start cell, start point, goal
\* cell and goal point on the same mesh had the same outcome (the same via-points, or
\* the same failure), whatever was called in between.
C11_SameQuerySameOutcome ==
    \A a, b \in 1..Len(history) :
        history[a].query = history[b].query => history[a].outcome = history[b].outcome
C11_Witness ==
    /\ Len(history) = 3
    /\ history[1].query = history[3].query
    /\ history[2].query # history[1].query
    /\ history[1].outcome[1] = "returned" /\ history[1].outcome[2] # <<>>
    /\ history[2].outcome[1] = "panicked"

\* C12: no step of plan changes the mesh, and a call whose steps were interleaved
\* with another caller's call on the same mesh has the outcome the same query has
\* when it runs alone.
C12_InterleavedAsAlone ==
    [][/\ nodes' = nodes
       /\ \A a, b \in 1..Len(history') :
            (~history'[a].alone /\ history'[b].alone /\ history'[a].query = history'[b].query)
                => history'[a].outcome = history'[b].outcome]_vars
C12_Witness ==
    /\ Len(history) = 3
    /\ history[1].alone /\ ~history[2].alone /\ ~history[3].alone
    /\ history[3].query = history[1].query
    /\ history[2].query # history[1].query
    /\ history[1].outcome[1] = "returned" /\ history[1].outcome[2] # <<>>

\* the points the planner has in hand: start, goal and the vertices of the channel
Points == {start, goal} \cup UNION {{At(channel[k], 0), At(channel[k], 1)} : k \in 1..Len(channel)}
\* c lies strictly to the left of the directed line from a through b: the vector a->c
\* has a positive component along a->b turned a quarter turn counter-clockwise
LeftOf(a, b, c) == (c[1] - a[1]) * (-(b[2] - a[2])) + (c[2] - a[2]) * (b[1] - a[1]) > 0
Collinear(a, b, c) == ~LeftOf(a, b, c) /\ ~LeftOf(a, c, b)

\* C13: area2(a, b, c) = (b-a).x*(c-a).y - (c-a).x*(b-a).y; it is positive exactly for
\* counter-clockwise turns a->b->c, negative for clockwise ones, zero for collinear
\* points, swapping b and c negates it, and the two triangles of tests::area_signs
\* have the signs the test asserts.
C13_Area2IsSignedArea ==
    /\ area2(<<0, 0>>, <<-1, 1>>, <<1, 1>>) < 0
    /\ area2(<<0, 0>>, <<1, 1>>, <<-1, 1>>) > 0
    /\ Returned =>
        \A a, b, c \in Points :
            /\ area2(a, b, c) = (b[1] - a[1]) * (c[2] - a[2]) - (c[1] - a[1]) * (b[2] - a[2])
            /\ area2(a, b, c) > 0 <=> LeftOf(a, b, c)
            /\ area2(a, b, c) < 0 <=> LeftOf(a, c, b)
            /\ area2(a, b, c) = 0 <=> Collinear(a, b, c)
            /\ area2(a, c, b) = -area2(a, b, c)
\* refine_path has evaluated area2(origin, (-1,1), (1,1)) and collapsed on the right
C13_Witness ==
    /\ pc = "done" /\ start = <<0, 0>> /\ goal = <<-1, 1>>
    /\ Len(channel) = 2 /\ At(channel[1], 1) = <<1, 1>>
    /\ path = << <<1, 1>> >>

\* the least of a non-empty set of costs
Least(S) == CHOOSE v \in S : \A w \in S : v <= w
\* one round of relaxing every edge of the mesh: d[v + 1] is the least cost found so
\* far of a cell path from cell a to cell v, an edge costing the distance between the
\* centers of the two cells it joins
RelaxAll(ns, d) ==
    [v \in 1..Len(ns) |->
        Least({d[v]} \cup {FAdd(d[u], Distance(ns[u].center, ns[v].center)) :
                                u \in {u \in 1..Len(ns) : \E e \in 1..Len(ns[u].edges) : ns[u].edges[e].neighbor = v - 1}})]
RECURSIVE RelaxRounds(_, _, _)
RelaxRounds(ns, d, k) == IF k = 0 THEN d ELSE RelaxRounds(ns, RelaxAll(ns, d), k - 1)
ShortestCost(ns, a, b) ==
    RelaxRounds(ns, [v \in 1..Len(ns) |-> IF v = a + 1 THEN 0 ELSE Inf], Len(ns))[b + 1]
\* the cost of the cell path the channel encodes: the backpointers from cell n to the start
RECURSIVE ChannelCost(_, _, _)
ChannelCost(ns, cf, n) ==
    IF n = start_node THEN 0
    ELSE LET prev == At(Unwrap(cf[n + 1]), 0)
         IN  ChannelCost(ns, cf, prev) + Distance(At(ns, prev).center, At(ns, n).center)

\* C14: whenever plan_channel returns, the cell path its channel encodes has the
\* least total cost of all cell paths from the start cell to the goal cell.
C14_ChannelIsShortest ==
    Returned => ChannelCost(nodes, came_from, goal_node) = ShortestCost(nodes, start_node, goal_node)

\* C15: the frontier behaves as a standard min-priority queue keyed by f: it accepts
\* every key the search pushes, keys below the key last popped included, so the
\* search never fails in its frontier.
C15_FrontierAcceptsEveryKey == panic # "Key must be lower or equal to current top key"

\* refine_path is about to examine the portal at index i against the funnel's bounds
Scanning == pc = "refine" /\ i < Len(channel)
NewLeft == At(At(channel, i), 0)
NewRight == At(At(channel, i), 1)
CurrentLeft == At(At(channel, left_index), 0)
CurrentRight == At(At(channel, right_index), 1)
CollapsesRight == Scanning /\ Turn(apex, NewLeft, CurrentRight) < 0
CollapsesLeft == Scanning /\ ~CollapsesRight /\ Turn(apex, CurrentLeft, NewRight) < 0

\* C16: a right-side collapse with the right bound at index r appends channel[r][1] to
\* the via-points and makes it the apex, sets both bound indices to r + 1, and resumes
\* the scan at index r + 2.
C16_RightCollapseRestart ==
    [][CollapsesRight =>
        /\ path' = Append(path, CurrentRight)
        /\ apex' = CurrentRight
        /\ left_index' = right_index + 1
        /\ right_index' = right_index + 1
        /\ i' = right_index + 2]_vars

\* C17: a left-side collapse with the left bound at index l appends channel[l][0] to
\* the via-points and makes it the apex, sets both bound indices to l + 1, and resumes
\* the scan at index l + 2, as the right-side collapse does relative to r.
C17_LeftCollapseRestart ==
    [][CollapsesLeft =>
        /\ path' = Append(path, CurrentLeft)
        /\ apex' = CurrentLeft
        /\ left_index' = left_index + 1
        /\ right_index' = left_index + 1
        /\ i' = left_index + 2]_vars

\* C18: on a step without collapse the right-bound index advances to i when the
\* portal's second vertex is inside the funnel on both sides, and the left-bound index
\* advances to i when the portal's first vertex is inside on both sides.
C18_BothBoundsNarrow ==
    [][(Scanning /\ ~CollapsesRight /\ ~CollapsesLeft) =>
        /\ (Turn(apex, CurrentLeft, NewRight) >= 0 /\ Turn(apex, NewRight, CurrentRight) >= 0)
                => right_index' = i
        /\ (Turn(apex, NewLeft, CurrentRight) >= 0 /\ Turn(apex, CurrentLeft, NewLeft) >= 0)
                => left_index' = i]_vars

\* C19: the search stops at the pop of the goal cell: that pop leaves the while loop,
\* the goal cell's edges are never relaxed, and from then on no cost, backpointer or
\* frontier entry changes, whatever the frontier still holds.
C19_StopsAtGoalPop ==
    [][/\ (pc = "search" /\ frontier' # frontier /\ current' = goal_node) => pc' = "walk"
       /\ pc' = "relax" => current' # goal_node
       /\ pc \in {"walk", "refine", "done"} =>
            (cost' = cost /\ came_from' = came_from /\ frontier' = frontier)]_vars
C19_Witness ==
    /\ pc = "done" /\ current = goal_node /\ goal_node # start_node
    /\ frontier # <<>>
    /\ At(nodes, goal_node).edges # <<>>

\* the neighbor the for loop is at, and the tentative cost of reaching it through current
RelaxedNeighbor == At(At(nodes, current).edges, edge_i).neighbor
Tentative == cost[current + 1] + Distance(At(nodes, current).center, At(nodes, RelaxedNeighbor).center)

\* C20: an iteration of the for loop records the tentative cost and the backpointer
\* <<current, edge>> for the neighbor and pushes the neighbor once if the tentative cost
\* is strictly less than the neighbor's recorded cost, and changes none of the three
\* otherwise; while the search runs no recorded cost increases and cost[start] is 0.
C20_RelaxIffStrictlyLess ==
    [][/\ pc = "relax" =>
            IF Tentative < cost[RelaxedNeighbor + 1]
            THEN /\ cost' = [cost EXCEPT ![RelaxedNeighbor + 1] = Tentative]
                 /\ came_from' = [came_from EXCEPT ![RelaxedNeighbor + 1] = Some(<<current, edge_i>>)]
                 /\ Len(frontier') = Len(frontier) + 1
                 /\ Last(frontier')[2] = RelaxedNeighbor
            ELSE cost' = cost /\ came_from' = came_from /\ frontier' = frontier
       /\ pc \in {"search", "relax"} =>
            /\ \A k \in 1..Len(cost) : cost'[k] <= cost[k]
            /\ cost'[start_node + 1] = 0]_vars

\* following the backpointers from cell n reaches the start cell within k steps
RECURSIVE WalkReaches(_, _, _)
WalkReaches(cf, n, k) ==
    \/ n = start_node
    \/ k > 0 /\ cf[n + 1] # None /\ WalkReaches(cf, At(Unwrap(cf[n + 1]), 0), k - 1)

\* C21: whenever came_from[n] = (p, e), edge e of cell p leads to n and
\* cost[n] >= cost[p] + edge_cost(p, e); came_from[start] is None; and the backpointers
\* lead from every cell that has one to the start in at most (number of cells - 1)
\* steps, without a cycle.
C21_BackpointersConsistent ==
    Called =>
        /\ came_from[start_node + 1] = None
        /\ \A n \in 0..(Len(nodes) - 1) :
            came_from[n + 1] # None =>
                LET p == At(Unwrap(came_from[n + 1]), 0)
                    e == At(Unwrap(came_from[n + 1]), 1)
                IN  /\ e < Len(At(nodes, p).edges)
                    /\ At(At(nodes, p).edges, e).neighbor = n
                    /\ cost[n + 1] >= cost[p + 1] + Distance(At(nodes, p).center, At(nodes, n).center)
                    /\ WalkReaches(came_from, n, Len(nodes) - 1)

\* the estimate as the claim states it: over the outgoing edges of cell n, the least of
\* the squared distance from vertices[0] and the plain distance from vertices[1] to g
StatedEstimate(ns, n, g) ==
    IF At(ns, n).edges = <<>> THEN Inf
    ELSE Least({DistanceSquared(At(ns, n).edges[k].vertices[1], g) : k \in 1..Len(At(ns, n).edges)}
                \cup {Distance(At(ns, n).edges[k].vertices[2], g) : k \in 1..Len(At(ns, n).edges)})

\* C22: heuristic(cell, goal) is the least, over the cell's outgoing edges, of the
\* squared distance from vertices[0] to the goal and the plain distance from vertices[1]
\* to the goal, +infinity for a cell without edges; the key pushed for a cell is its
\* tentative cost plus this value.
C22_KeyIsCostPlusEstimate ==
    [][(pc = "relax" /\ Len(frontier') = Len(frontier) + 1) =>
        LET n == Last(frontier')[2]
            h == StatedEstimate(nodes, n, goal)
        IN  /\ heuristic(nodes, n, goal) = h
            /\ Last(frontier')[1] = IF h = Inf THEN Inf ELSE cost'[n + 1] + h]_vars
\* a cell without edges was pushed with an infinite key, and another cell with a finite
\* key for which the squared distance is the greater of the two
C22_Witness ==
    /\ \E k \in 1..Len(frontier) : frontier[k][1] = Inf /\ At(nodes, frontier[k][2]).edges = <<>>
    /\ \E k \in 1..Len(frontier) :
        /\ frontier[k][1] < Inf
        /\ \E e \in 1..Len(At(nodes, frontier[k][2]).edges) :
              LET x == At(nodes, frontier[k][2]).edges[e]
              IN  DistanceSquared(x.vertices[1], goal) > Distance(x.vertices[1], goal)

\* the edges (0-based indices) of cell p that lead to cell n
EdgesBetween(ns, p, n) == {e \in 0..(Len(At(ns, p).edges) - 1) : At(At(ns, p).edges, e).neighbor = n}
LowestEdge(ns, p, n) == CHOOSE e \in EdgesBetween(ns, p, n) : \A f \in EdgesBetween(ns, p, n) : e <= f

\* C23: all edges from a cell to the same neighbor have equal cost; a backpointer to a
\* cell with several edges to the neighbor names the lowest-index one, and the portal
\* of that edge is the one in the channel.
C23_ParallelEdgesLowestIndex ==
    Called =>
        /\ \A p, n \in 0..(Len(nodes) - 1) : \A e, f \in EdgesBetween(nodes, p, n) :
                edge_cost(nodes, p, e) = edge_cost(nodes, p, f)
        /\ \A n \in 0..(Len(nodes) - 1) :
                came_from[n + 1] # None =>
                    At(Unwrap(came_from[n + 1]), 1) = LowestEdge(nodes, At(Unwrap(came_from[n + 1]), 0), n)
        /\ (Returned /\ Len(channel) = 2) =>
                channel[1] = At(At(nodes, start_node).edges, LowestEdge(nodes, start_node, goal_node)).vertices
C23_Witness ==
    /\ pc = "done" /\ ParallelEdges
    /\ came_from[goal_node + 1] = Some(<<start_node, 0>>)
    /\ At(At(nodes, start_node).edges, 1).neighbor = goal_node
    /\ At(At(nodes, start_node).edges, 1).vertices # At(At(nodes, start_node).edges, 0).vertices
    /\ channel[1] = At(At(nodes, start_node).edges, 0).vertices

\* C24: in refine_path, for every channel, left_index < i, right_index < i and
\* left_index >= right_index - 1 at the start of each iteration, where i < channel.len():
\* channel[i], channel[left_index] and channel[right_index] are in bounds, also in the
\* iteration that follows a collapse.
C24_IndicesInBounds ==
    pc = "refine" =>
        /\ left_index < i /\ right_index < i
        /\ left_index >= right_index - 1
        /\ Scanning => {i, left_index, right_index} \subseteq 0..(Len(channel) - 1)
\* an iteration is about to run after a left-side collapse left the right bound one
\* portal ahead of the left bound
C24_Witness ==
    /\ Scanning /\ Len(path) = 1
    /\ right_index = left_index + 1
    /\ i = right_index + 2

\* C25: refine_path terminates on every channel: every collapse strictly increases
\* right_index, every other iteration strictly increases i and leaves right_index
\* alone, and the via-points number less than channel.len() (none for a channel of
\* length 0 or 1).
C25_RefineTerminates ==
    /\ <>(pc = "done")
    /\ [][Scanning =>
            IF CollapsesRight \/ CollapsesLeft
            THEN right_index' > right_index /\ Len(path') = Len(path) + 1
            ELSE i' > i /\ right_index' = right_index /\ path' = path]_vars
    /\ [](Len(path) < Len(channel) \/ (channel = <<>> /\ path = <<>>))
    /\ [](Len(channel) <= 1 => path = <<>>)
\* a collapse on each side has happened in a channel of full length
C25_Witness ==
    /\ pc = "done" /\ Len(channel) = MaxChan /\ Len(path) = 2
    /\ path[1] = At(At(channel, 0), 0)
    /\ \E k \in 0..(Len(channel) - 2) : path[2] = At(At(channel, k), 1) /\ path[2] # At(At(channel, k), 0)

\* the cursor's value at the step before the next one (not pressed before the first)
PressedAtLastStep == IF presses = <<>> THEN FALSE ELSE Last(presses)
\* the steps at which the cursor was pressed and was not at the step before
RisingEdges(seq) == {k \in 1..Len(seq) : seq[k] /\ (k = 1 \/ ~seq[k - 1])}

\* C26: a State::step creates one collider entity if the cursor is pressed at that
\* step and was not at the step before, and none otherwise; cursor_pressed creates
\* none; so the entities number the presses, however long each is held, and
\* was_pressed is the value the latest step saw.
C26_InputIsEdgeTriggered ==
    /\ [][IF presses' # presses
           THEN Len(state'.colliders) =
                    Len(state.colliders) + (IF state.cursor.pressed /\ ~PressedAtLastStep THEN 1 ELSE 0)
           ELSE state'.colliders = state.colliders]_vars
    /\ [](Len(state.colliders) = Cardinality(RisingEdges(presses)))
    /\ [](state.was_pressed = PressedAtLastStep)
\* held over three steps, released, pressed again: two entities
C26_Witness ==
    /\ presses = <<TRUE, TRUE, TRUE, FALSE, TRUE>>
    /\ Len(state.colliders) = 2
    /\ state.step = 5

\* how many times the closure of guard number k has run
Runs(k) == Cardinality({j \in 1..Len(ran) : ran[j] = k})

\* C27: the closure of a guard made by defer has not run while the guard is live, runs
\* in the step that drops the guard, has run exactly once after it, and never runs if
\* disarm was called on the guard.
C27_DeferredRunsOnceAtDrop ==
    /\ [](\A k \in 1..Len(guards) :
            Runs(k - 1) = IF ~guards[k].live /\ ~guards[k].disarmed THEN 1 ELSE 0)
    /\ [][\A k \in 1..Len(guards) :
            (guards[k].live /\ ~guards'[k].live /\ ~guards'[k].disarmed) => ran' = Append(ran, k - 1)]_vars
\* one guard dropped, one disarmed, one still live
C27_Witness ==
    /\ Len(guards) = 3
    /\ ~guards[1].live /\ guards[1].disarmed
    /\ ~guards[2].live /\ ~guards[2].disarmed
    /\ guards[3].live
    /\ ran = <<1>>
====
